---- MODULE Spec2Model ----
(***************************************************************************)
(* manual-gradients.ipynb: the toy graph u = x*w, v = u+b, a = relu(v),    *)
(* its partial derivatives read through tf.gradients (TensorFlow cell)     *)
(* and through register_hook/save_grad and a.backward() (PyTorch cell).    *)
(*                                                                         *)
(* The notebook runs its cells in order.  The model runs three cells:      *)
(*   "tf"     the TensorFlow cell,                                         *)
(*   "hooked" the PyTorch cell as written, with the five hooks,            *)
(*   "plain"  the same graph and a.backward() with no hook registered,     *)
(*            the "regular backward call without hooks" of the closing     *)
(*            markdown cell.                                               *)
(* The inputs x, w, b are the literals 3, 2, 1 in the notebook; the model  *)
(* draws them from a bounded set of integers that contains the literals.   *)
(* A tensor of one element is modelled by its integer value; a value that  *)
(* may be absent (Python None) is a sequence of length 0 or 1.             *)
(***************************************************************************)
EXTENDS Integers, Sequences, FiniteSets, TLC

VARIABLES
  cell,       \* the cell being executed: "tf", "hooked", "plain", "done"
  pc,         \* index of the next statement of the cell
  eng,        \* autograd engine of the running cell: "idle" or "running"
  inp,        \* the input values [x, w, b]
  tfval,      \* TensorFlow cell: node values computed by sess.run
  tfgrads,    \* TensorFlow cell: the list `grads` returned by sess.run
  val,        \* PyTorch: val[r][z] is the data of Variable z in run r
  hooks,      \* PyTorch: hooks[r][z] is the list of hooks registered on z
  grads,      \* PyTorch cell: the global dictionary `grads`
  gbuf,       \* engine: gbuf[r][z] is the gradient computed for z
  hran,       \* engine: hran[r][z] is the number of hooks of z already run
  processed,  \* engine: processed[r] is the set of nodes whose task ran
  grad,       \* PyTorch: grad[r][z] is the attribute z.grad
  calls       \* the hook invocations so far, in order

vars == <<cell, pc, eng, inp, tfval, tfgrads, val, hooks, grads, gbuf, hran,
          processed, grad, calls>>

\* ---------------------------------------------------------------- bounds --
MaxIn == 3

\* ------------------------------------------------------ program constants --
XLit == 3
WLit == 2
BLit == 1

Inputs == (0 - MaxIn)..MaxIn

\* ------------------------------------------------------------- the graph --
Nodes == {"x", "w", "b", "u", "v", "a"}
Leaves == {"x", "w", "b"}
TorchRuns == {"hooked", "plain"}

None == <<>>
Some(n) == <<n>>
Get(o) == o[1]

EmptyDict == [k \in {} |-> 0]

\* The key under which the notebook registers the hook of each variable.
HookName(z) == "d_a_" \o z

\* The node computed from z (each node of the graph has one consumer).
Consumer(z) ==
  CASE z = "x" -> "u"
    [] z = "w" -> "u"
    [] z = "u" -> "v"
    [] z = "b" -> "v"
    [] z = "v" -> "a"

\* ------------------------------------------------------ forward operators --
Mul(p, q) == p * q
Add(p, q) == p + q
Relu(p) == IF p > 0 THEN p ELSE 0

\* ------------------------------------------------------- statement lists --
TfProgram == <<"tf_graph", "tf_run">>
HookedProgram ==
  <<"grads_init", "leaf_x", "leaf_w", "leaf_b", "mul", "add",
    "reg_x", "reg_w", "reg_b", "reg_u", "reg_v", "relu", "backward">>
PlainProgram ==
  <<"leaf_x", "leaf_w", "leaf_b", "mul", "add", "relu", "backward">>

Program(c) ==
  CASE c = "tf" -> TfProgram
    [] c = "hooked" -> HookedProgram
    [] c = "plain" -> PlainProgram
    [] OTHER -> <<>>

NextCell(c) ==
  CASE c = "tf" -> "hooked"
    [] c = "hooked" -> "plain"
    [] OTHER -> "done"

At(label) == pc <= Len(Program(cell)) /\ Program(cell)[pc] = label

\* Control moves to the next statement, or to the next cell after the last.
Advance ==
  IF pc < Len(Program(cell))
    THEN pc' = pc + 1 /\ cell' = cell
    ELSE pc' = 1 /\ cell' = NextCell(cell)

Init ==
  /\ cell = "tf"
  /\ pc = 1
  /\ eng = "idle"
  /\ inp \in [x : Inputs, w : Inputs, b : Inputs]
  /\ tfval = [z \in Nodes |-> None]
  /\ tfgrads = None
  /\ val = [r \in TorchRuns |-> [z \in Nodes |-> None]]
  /\ hooks = [r \in TorchRuns |-> [z \in Nodes |-> <<>>]]
  /\ grads = EmptyDict
  /\ gbuf = [r \in TorchRuns |-> [z \in Nodes |-> None]]
  /\ hran = [r \in TorchRuns |-> [z \in Nodes |-> 0]]
  /\ processed = [r \in TorchRuns |-> {}]
  /\ grad = [r \in TorchRuns |-> [z \in Nodes |-> None]]
  /\ calls = <<>>

torchVars == <<val, hooks, grads, gbuf, hran, processed, grad, calls>>
engVars == <<gbuf, hran, processed, grad, calls>>

\* ------------------------------------------------------ TensorFlow cell --
\* tf.placeholder / tf.Variable / u, v, a / tf.gradients: the graph and the
\* five gradient nodes are defined; nothing is evaluated yet.
TfBuildGraph ==
  /\ cell = "tf" /\ At("tf_graph")
  /\ Advance
  /\ UNCHANGED <<eng, inp, tfval, tfgrads>>
  /\ UNCHANGED torchVars

\* The forward values of the graph for the fed x and the initial w and b.
TfForward(i) ==
  LET u == Mul(i.x, i.w)
      v == Add(u, i.b)
      a == Relu(v)
  IN  [z \in Nodes |->
         CASE z = "x" -> Some(i.x)
           [] z = "w" -> Some(i.w)
           [] z = "b" -> Some(i.b)
           [] z = "u" -> Some(u)
           [] z = "v" -> Some(v)
           [] z = "a" -> Some(a)]

\* Fault variant of TfOpGrad: relu passes the gradient at v = 0.
TfReluGradAtZero(vals, op, z) ==
  CASE op = "a" -> IF Get(vals["v"]) >= 0 THEN 1 ELSE 0
    [] op = "v" -> 1
    [] op = "u" -> IF z = "x" THEN Get(vals["w"]) ELSE Get(vals["x"])

\* The gradient of op's output with respect to its input z, as registered for
\* Mul, Add and Relu in TensorFlow.
TfOpGrad(vals, op, z) ==
  CASE op = "a" -> IF Get(vals["v"]) > 0 THEN 1 ELSE 0
    [] op = "v" -> 1
    [] op = "u" -> IF z = "x" THEN Get(vals["w"]) ELSE Get(vals["x"])

\* tf.gradients(a, z): backpropagation from a to z along the graph.
RECURSIVE TfGradients(_, _)
TfGradients(vals, z) ==
  IF z = "a" THEN 1
  ELSE TfOpGrad(vals, Consumer(z), z) * TfGradients(vals, Consumer(z))

\* sess.run([d_a_b, d_a_u, d_a_v, d_a_w, d_a_x], feed_dict={'x:0': x});
\* tf.gradients returns a list, so every entry is a list of one value.
TfSessionRun ==
  /\ cell = "tf" /\ At("tf_run")
  /\ LET vals == TfForward(inp)
     IN  /\ tfval' = vals
         /\ tfgrads' = << <<TfGradients(vals, "b")>>,
                          <<TfGradients(vals, "u")>>,
                          <<TfGradients(vals, "v")>>,
                          <<TfGradients(vals, "w")>>,
                          <<TfGradients(vals, "x")>> >>
  /\ Advance
  /\ UNCHANGED <<eng, inp>>
  /\ UNCHANGED torchVars

\* --------------------------------------------------------- PyTorch cell --
\* grads = {}
GradsInit ==
  /\ cell = "hooked" /\ At("grads_init")
  /\ grads' = EmptyDict
  /\ Advance
  /\ UNCHANGED <<eng, inp, tfval, tfgrads, val, hooks>>
  /\ UNCHANGED engVars

\* z = Variable(torch.Tensor([..]).view(1, 1), requires_grad=True)
CreateLeaf(z) ==
  /\ cell \in TorchRuns /\ At("leaf_" \o z)
  /\ val' = [val EXCEPT ![cell][z] = Some(inp[z])]
  /\ Advance
  /\ UNCHANGED <<eng, inp, tfval, tfgrads, hooks, grads>>
  /\ UNCHANGED engVars

\* Fault variant of MulForward: the inputs are added.
MulForwardSub ==
  /\ cell \in TorchRuns /\ At("mul")
  /\ val' = [val EXCEPT ![cell]["u"] =
               Some(Get(val[cell]["x"]) + Get(val[cell]["w"]))]
  /\ Advance
  /\ UNCHANGED <<eng, inp, tfval, tfgrads, hooks, grads>>
  /\ UNCHANGED engVars

\* u = x * w
MulForward ==
  /\ cell \in TorchRuns /\ At("mul")
  /\ val' = [val EXCEPT ![cell]["u"] =
               Some(Mul(Get(val[cell]["x"]), Get(val[cell]["w"])))]
  /\ Advance
  /\ UNCHANGED <<eng, inp, tfval, tfgrads, hooks, grads>>
  /\ UNCHANGED engVars

\* v = u + b
AddForward ==
  /\ cell \in TorchRuns /\ At("add")
  /\ val' = [val EXCEPT ![cell]["v"] =
               Some(Add(Get(val[cell]["u"]), Get(val[cell]["b"])))]
  /\ Advance
  /\ UNCHANGED <<eng, inp, tfval, tfgrads, hooks, grads>>
  /\ UNCHANGED engVars

\* a = F.relu(v)
ReluForward ==
  /\ cell \in TorchRuns /\ At("relu")
  /\ val' = [val EXCEPT ![cell]["a"] = Some(Relu(Get(val[cell]["v"])))]
  /\ Advance
  /\ UNCHANGED <<eng, inp, tfval, tfgrads, hooks, grads>>
  /\ UNCHANGED engVars

\* save_grad(name) returns the closure hook, which remembers name; the
\* closure is modelled by the name it captured.  save_grad writes nothing.
save_grad(name) == name

\* Fault variant of RegisterHook: save_grad creates the entry of grads.
RegisterHookWriting(z) ==
  /\ cell = "hooked" /\ At("reg_" \o z)
  /\ hooks' = [hooks EXCEPT ![cell][z] = Append(@, save_grad(HookName(z)))]
  /\ grads' = [k \in DOMAIN grads \cup {HookName(z)} |->
                 IF k = HookName(z) THEN 0 ELSE grads[k]]
  /\ Advance
  /\ UNCHANGED <<eng, inp, tfval, tfgrads, val>>
  /\ UNCHANGED engVars

\* z.register_hook(save_grad('d_a_z'))
RegisterHook(z) ==
  /\ cell = "hooked" /\ At("reg_" \o z)
  /\ hooks' = [hooks EXCEPT ![cell][z] = Append(@, save_grad(HookName(z)))]
  /\ Advance
  /\ UNCHANGED <<eng, inp, tfval, tfgrads, val, grads>>
  /\ UNCHANGED engVars

\* ------------------------------------------------------ autograd engine --
\* The current run's gradient of a with respect to z has been computed.
GradReady(z) == gbuf[cell][z] # None

\* Fault variant of HooksDone: the task of z does not wait for its hooks.
HooksSkipped(z) == TRUE

\* Every hook registered on z has been called in this backward pass.
HooksDone(z) == hran[cell][z] = Len(hooks[cell][z])

\* The backward task of node z can run: its gradient has arrived, its hooks
\* have been called (they run before the node's backward function), and the
\* task has not run yet.
TaskReady(z) ==
  /\ cell \in TorchRuns /\ eng = "running"
  /\ GradReady(z)
  /\ z \notin processed[cell]
  /\ HooksDone(z)

\* Fault variant of Retains: every Variable keeps its gradient.
RetainsAll(z) == TRUE

\* Only leaf Variables keep their gradient in .grad.
Retains(z) == z \in Leaves

\* z.grad after the task of z received gradient g.
RetainGrad(z, g) ==
  IF Retains(z)
    THEN [grad EXCEPT ![cell][z] = IF @ = None THEN Some(g) ELSE Some(Get(@) + g)]
    ELSE grad

\* Fault variant of hook: the key is not the captured name.
hookFixedKey(name, g) ==
  [k \in DOMAIN grads \cup {"d_a_x"} |-> IF k = "d_a_x" THEN g ELSE grads[k]]

\* def hook(grad): grads[name] = grad          (the dictionary afterwards)
hook(name, g) ==
  [k \in DOMAIN grads \cup {name} |-> IF k = name THEN g ELSE grads[k]]

\* Fault variant of hookReturn: the hook returns a changed gradient.
hookReturnsDouble(name, g) == Some(2 * g)

\* hook has no return statement: it returns None.
hookReturn(name, g) == None

\* Fault variant of HooksToCall: every hook is called twice.
HooksToCallTwice(z) == hooks[cell][z] \o hooks[cell][z]

\* The hooks of z that one backward pass calls, in order.
HooksToCall(z) == hooks[cell][z]

\* a.backward(): the output is a single element, its gradient is 1.
BackwardStart ==
  /\ cell \in TorchRuns /\ At("backward") /\ eng = "idle"
  /\ eng' = "running"
  /\ gbuf' = [gbuf EXCEPT ![cell]["a"] = Some(1)]
  /\ UNCHANGED <<cell, pc, inp, tfval, tfgrads, val, hooks, grads, hran,
                 processed, grad, calls>>

\* The engine calls the next hook of z with the gradient of z; a hook that
\* returns a value replaces the gradient, one that returns None does not.
RunHook(z) ==
  /\ cell \in TorchRuns /\ eng = "running"
  /\ GradReady(z)
  /\ z \notin processed[cell]
  /\ hran[cell][z] < Len(HooksToCall(z))
  /\ LET h == HooksToCall(z)[hran[cell][z] + 1]
         g == Get(gbuf[cell][z])
         res == hookReturn(h, g)
     IN  /\ grads' = hook(h, g)
         /\ calls' = Append(calls, [var |-> z, name |-> h, arg |-> g])
         /\ gbuf' = IF res = None THEN gbuf
                    ELSE [gbuf EXCEPT ![cell][z] = res]
  /\ hran' = [hran EXCEPT ![cell][z] = @ + 1]
  /\ UNCHANGED <<cell, pc, eng, inp, tfval, tfgrads, val, hooks, processed,
                 grad>>

\* Fault variant of ReluBackward: the gradient passes at v = 0.
ReluBackwardAtZero ==
  /\ TaskReady("a")
  /\ LET g == Get(gbuf[cell]["a"])
     IN  /\ gbuf' = [gbuf EXCEPT ![cell]["v"] =
                       Some(IF Get(val[cell]["v"]) >= 0 THEN g ELSE 0)]
         /\ grad' = RetainGrad("a", g)
  /\ processed' = [processed EXCEPT ![cell] = @ \cup {"a"}]
  /\ UNCHANGED <<cell, pc, eng, inp, tfval, tfgrads, val, hooks, grads, hran,
                 calls>>

\* Backward of a = relu(v): the gradient passes where v > 0.
ReluBackward ==
  /\ TaskReady("a")
  /\ LET g == Get(gbuf[cell]["a"])
     IN  /\ gbuf' = [gbuf EXCEPT ![cell]["v"] =
                       Some(IF Get(val[cell]["v"]) > 0 THEN g ELSE 0)]
         /\ grad' = RetainGrad("a", g)
  /\ processed' = [processed EXCEPT ![cell] = @ \cup {"a"}]
  /\ UNCHANGED <<cell, pc, eng, inp, tfval, tfgrads, val, hooks, grads, hran,
                 calls>>

\* Backward of v = u + b: both inputs receive the gradient of v.
AddBackward ==
  /\ TaskReady("v")
  /\ LET g == Get(gbuf[cell]["v"])
     IN  /\ gbuf' = [gbuf EXCEPT ![cell]["u"] = Some(g), ![cell]["b"] = Some(g)]
         /\ grad' = RetainGrad("v", g)
  /\ processed' = [processed EXCEPT ![cell] = @ \cup {"v"}]
  /\ UNCHANGED <<cell, pc, eng, inp, tfval, tfgrads, val, hooks, grads, hran,
                 calls>>

\* Fault variant of MulBackward: each input is multiplied by itself.
MulBackwardSwapped ==
  /\ TaskReady("u")
  /\ LET g == Get(gbuf[cell]["u"])
     IN  /\ gbuf' = [gbuf EXCEPT ![cell]["x"] = Some(g * Get(val[cell]["x"])),
                                 ![cell]["w"] = Some(g * Get(val[cell]["w"]))]
         /\ grad' = RetainGrad("u", g)
  /\ processed' = [processed EXCEPT ![cell] = @ \cup {"u"}]
  /\ UNCHANGED <<cell, pc, eng, inp, tfval, tfgrads, val, hooks, grads, hran,
                 calls>>

\* Backward of u = x * w: each input receives the gradient of u times the
\* other input.
MulBackward ==
  /\ TaskReady("u")
  /\ LET g == Get(gbuf[cell]["u"])
     IN  /\ gbuf' = [gbuf EXCEPT ![cell]["x"] = Some(g * Get(val[cell]["w"])),
                                 ![cell]["w"] = Some(g * Get(val[cell]["x"]))]
         /\ grad' = RetainGrad("u", g)
  /\ processed' = [processed EXCEPT ![cell] = @ \cup {"u"}]
  /\ UNCHANGED <<cell, pc, eng, inp, tfval, tfgrads, val, hooks, grads, hran,
                 calls>>

\* The task of a leaf accumulates the gradient into z.grad.
AccumulateGrad(z) ==
  /\ z \in Leaves
  /\ TaskReady(z)
  /\ grad' = RetainGrad(z, Get(gbuf[cell][z]))
  /\ processed' = [processed EXCEPT ![cell] = @ \cup {z}]
  /\ UNCHANGED <<cell, pc, eng, inp, tfval, tfgrads, val, hooks, grads, gbuf,
                 hran, calls>>

\* a.backward() returns when no task is left.
BackwardReturn ==
  /\ cell \in TorchRuns /\ At("backward") /\ eng = "running"
  /\ processed[cell] = Nodes
  /\ eng' = "idle"
  /\ Advance
  /\ UNCHANGED <<inp, tfval, tfgrads>>
  /\ UNCHANGED torchVars

\* ----------------------------------------------------------- specification --
Next ==
  \/ TfBuildGraph
  \/ TfSessionRun
  \/ GradsInit
  \/ \E z \in Leaves : CreateLeaf(z)
  \/ MulForward
  \/ AddForward
  \/ ReluForward
  \/ \E z \in Nodes \ {"a"} : RegisterHook(z)
  \/ BackwardStart
  \/ \E z \in Nodes : RunHook(z)
  \/ ReluBackward
  \/ AddBackward
  \/ MulBackward
  \/ \E z \in Leaves : AccumulateGrad(z)
  \/ BackwardReturn

Spec == Init /\ [][Next]_vars

\* ------------------------------------------------------------ properties --
\* The notebook's literal inputs.
Worked == inp = [x |-> XLit, w |-> WLit, b |-> BLit]

TfDone == cell # "tf"
HookedDone == cell \in {"plain", "done"}
PlainDone == cell = "done"

Hooked == Nodes \ {"a"}
HookKeys == {HookName(z) : z \in Hooked}

\* The chain rule over u = x*w, v = u+b, a = relu(v), in closed form.
Gate(i) == IF i.x * i.w + i.b > 0 THEN 1 ELSE 0
ChainRule(i, z) ==
  CASE z \in {"v", "u", "b"} -> Gate(i)
    [] z = "w" -> i.x * Gate(i)
    [] z = "x" -> i.w * Gate(i)

\* C1: for x=3, w=2, b=1 the TensorFlow cell prints
\* [d_a_b, d_a_u, d_a_v, d_a_w, d_a_x] = [[1], [1], [1], [3], [2]] and, after
\* a.backward(), grads holds d_a_b=1, d_a_u=1, d_a_v=1, d_a_w=3, d_a_x=2.
C1_WorkedExampleGradients ==
  Worked =>
    /\ TfDone => tfgrads = << <<1>>, <<1>>, <<1>>, <<3>>, <<2>> >>
    /\ HookedDone =>
         /\ DOMAIN grads = HookKeys
         /\ grads["d_a_b"] = 1
         /\ grads["d_a_u"] = 1
         /\ grads["d_a_v"] = 1
         /\ grads["d_a_w"] = 3
         /\ grads["d_a_x"] = 2

C1_Witness ==
  /\ Worked
  /\ HookedDone
  /\ Len(tfgrads) = 5
  /\ Len(calls) = 5

\* C2: for x=3, w=2, b=1 the forward pass computes u = 6, then v = 7, then
\* a = 7, each from values that exist already: u only once x and w exist,
\* v only once u and b exist, a only once v exists.
C2_WorkedExampleForward ==
  /\ \A r \in TorchRuns :
       /\ val[r]["u"] # None => val[r]["x"] # None /\ val[r]["w"] # None
       /\ val[r]["v"] # None => val[r]["u"] # None /\ val[r]["b"] # None
       /\ val[r]["a"] # None => val[r]["v"] # None
       /\ Worked =>
            /\ val[r]["u"] \in {None, Some(6)}
            /\ val[r]["v"] \in {None, Some(7)}
            /\ val[r]["a"] \in {None, Some(7)}
  /\ Worked /\ TfDone =>
       /\ tfval["u"] = Some(6)
       /\ tfval["v"] = Some(7)
       /\ tfval["a"] = Some(7)

C2_Witness ==
  /\ Worked
  /\ val["hooked"]["u"] = Some(6)
  /\ val["hooked"]["v"] = Some(7)
  /\ val["hooked"]["a"] = Some(7)
  /\ tfval["a"] = Some(7)

\* C3: once a.backward() has returned in the cell that registered the five
\* hooks, the key set of grads is exactly {d_a_x, d_a_w, d_a_b, d_a_u, d_a_v}
\* and the key of every registered hook maps to the gradient of a with
\* respect to the variable the hook was registered on.
C3_BackwardCollectsAll ==
  HookedDone =>
    /\ DOMAIN grads = {"d_a_x", "d_a_w", "d_a_b", "d_a_u", "d_a_v"}
    /\ \A z \in Nodes :
         \A k \in 1..Len(hooks["hooked"][z]) :
           grads[hooks["hooked"][z][k]] = ChainRule(inp, z)

C3_Witness ==
  /\ HookedDone
  /\ \A z \in Hooked : hooks["hooked"][z] = <<HookName(z)>>
  /\ Cardinality(DOMAIN grads) = 5

\* C4: a hook is called only for a variable whose gradient has been
\* computed, with that gradient (da/dz for the hook of z) as its argument;
\* one a.backward() calls each of the five registered hooks exactly once, and
\* a backward pass of a graph without hooks calls none.
C4_HookCalledOncePerGradient ==
  /\ \A k \in 1..Len(calls) :
       /\ calls[k].var \in Hooked
       /\ gbuf["hooked"][calls[k].var] # None
       /\ calls[k].name = HookName(calls[k].var)
       /\ calls[k].arg = ChainRule(inp, calls[k].var)
  /\ \A j, k \in 1..Len(calls) : calls[j].var = calls[k].var => j = k
  /\ HookedDone => Len(calls) = 5

C4_Witness ==
  /\ PlainDone
  /\ Len(calls) = 5
  /\ {calls[k].var : k \in 1..Len(calls)} = Hooked

\* C5: after a.backward() on the graph with no hook registered, x.grad,
\* w.grad and b.grad hold a gradient while u.grad and v.grad hold none.
C5_OnlyLeavesRetained ==
  PlainDone =>
    /\ \A z \in Nodes : hooks["plain"][z] = <<>>
    /\ \A z \in {"x", "w", "b"} : grad["plain"][z] # None
    /\ \A z \in {"u", "v"} : grad["plain"][z] = None

C5_Witness ==
  /\ PlainDone
  /\ processed["plain"] = Nodes
  /\ gbuf["plain"]["u"] # None
  /\ grad["plain"]["u"] = None
  /\ grad["plain"]["x"] # None

\* C6: for every input, the list of the TensorFlow cell, read as
\* [d_a_b, d_a_u, d_a_v, d_a_w, d_a_x], has the values the PyTorch cell
\* collected under the keys d_a_b, d_a_u, d_a_v, d_a_w, d_a_x.
C6_FrameworksAgree ==
  TfDone /\ HookedDone =>
    tfgrads = << <<grads["d_a_b"]>>, <<grads["d_a_u"]>>, <<grads["d_a_v"]>>,
                 <<grads["d_a_w"]>>, <<grads["d_a_x"]>> >>

C6_Witness ==
  /\ HookedDone
  /\ ~Worked
  /\ inp.x * inp.w + inp.b = 0
  /\ tfgrads[3] = <<grads["d_a_v"]>>

\* C7: with g = 1 when v > 0 and g = 0 when v <= 0, the partial derivatives
\* collected by either cell are da/dv = g, da/du = g, da/db = g,
\* da/dw = x*g and da/dx = w*g; all five are 0 whenever x*w + b <= 0.
C7_ChainRule ==
  LET g == IF inp.x * inp.w + inp.b > 0 THEN 1 ELSE 0
      expected == [d_a_b |-> g, d_a_u |-> g, d_a_v |-> g,
                   d_a_w |-> inp.x * g, d_a_x |-> inp.w * g]
  IN  /\ HookedDone =>
           /\ grads = expected
           /\ inp.x * inp.w + inp.b <= 0 => \A k \in DOMAIN grads : grads[k] = 0
      /\ TfDone =>
           /\ tfgrads = << <<g>>, <<g>>, <<g>>, <<inp.x * g>>, <<inp.w * g>> >>
           /\ inp.x * inp.w + inp.b <= 0 => \A k \in 1..5 : tfgrads[k] = <<0>>

C7_Witness ==
  /\ HookedDone
  /\ inp.x * inp.w + inp.b = 0
  /\ inp.x # 0 /\ inp.w # 0
  /\ grads["d_a_x"] = 0

\* C8: grads is the empty dictionary from grads = {} until a.backward() is
\* called; registering a hook with save_grad(name) leaves grads unchanged;
\* one call of the hook of z writes the key d_a_z and leaves every other
\* entry of grads as it was.
C8_GradsOnlyWrittenByHooks ==
  /\ [](cell = "hooked" /\ pc > 1 /\ eng = "idle" => DOMAIN grads = {})
  /\ [][(\E z \in Hooked : RegisterHook(z)) => grads' = grads]_vars
  /\ [][\A z \in Nodes :
          RunHook(z) =>
            /\ DOMAIN grads' = DOMAIN grads \cup {HookName(z)}
            /\ \A k \in DOMAIN grads \ {HookName(z)} : grads'[k] = grads[k]]_vars

C8_Witness ==
  /\ cell = "hooked"
  /\ eng = "running"
  /\ Len(calls) = 3
  /\ Cardinality(DOMAIN grads) = 3

\* C9: the hook of v is called before the hooks of u and b, and the hook of
\* u before the hooks of x and w: whenever grads contains d_a_x or d_a_w it
\* contains d_a_u and d_a_v, and whenever it contains d_a_u or d_a_b it
\* contains d_a_v.
C9_ReverseOrder ==
  LET has(k) == k \in DOMAIN grads
      pos(z) == CHOOSE k \in 1..Len(calls) : calls[k].var = z
      called(z) == \E k \in 1..Len(calls) : calls[k].var = z
  IN  /\ has("d_a_x") \/ has("d_a_w") => has("d_a_u") /\ has("d_a_v")
      /\ has("d_a_u") \/ has("d_a_b") => has("d_a_v")
      /\ \A z \in Hooked \ {"v"} :
           called(z) => called(Consumer(z)) /\ pos(Consumer(z)) < pos(z)

C9_Witness ==
  /\ cell = "hooked"
  /\ eng = "running"
  /\ DOMAIN grads = {"d_a_v", "d_a_u", "d_a_x"}

\* C10: the hooks do not change the gradients: after a.backward() the
\* gradients kept on x, w and b equal grads[d_a_x], grads[d_a_w] and
\* grads[d_a_b], and every gradient of the pass with hooks equals the one of
\* the pass without hooks.
C10_HooksOnlyObserve ==
  /\ HookedDone =>
       \A z \in Leaves : grad["hooked"][z] = Some(grads[HookName(z)])
  /\ PlainDone =>
       /\ \A z \in Leaves : grad["hooked"][z] = grad["plain"][z]
       /\ \A z \in Nodes : gbuf["hooked"][z] = gbuf["plain"][z]

C10_Witness ==
  /\ PlainDone
  /\ Len(calls) = 5
  /\ \A z \in Nodes : hooks["plain"][z] = <<>>
  /\ grad["plain"]["x"] # None
  /\ Get(grad["hooked"]["w"]) # 0

====
